---- MODULE Spec2Model ----
(***************************************************************************)
(* Execution-session subsystem of the Proworldz desktop main process       *)
(* (src/main.js): batch runs (runCodeWithInput), interactive sessions       *)
(* (startRunSession / registerRunSession / stopRunSession and the           *)
(* 'send-input' / 'stop-run' IPC handlers), their timers and the files      *)
(* they leave in the scratch directory.                                     *)
(*                                                                          *)
(* Time is the millisecond clock that Date.now() and setTimeout share.      *)
(* The main process is a single-threaded event loop: every action below is  *)
(* one callback (an IPC handler up to its first await, a timer callback, a  *)
(* child-process event handler) and runs atomically.  Timers are urgent:    *)
(* the clock does not pass an armed deadline before its callback has run.   *)
(***************************************************************************)
EXTENDS Integers, Sequences, FiniteSets, TLC

\* ------------------------------------------------------------- bounds
MaxRuns == 2          \* batch runs issued
MaxSessions == 2      \* startRun requests that reach a session object
MaxRequests == 2      \* runs and sessions issued in all
MaxTick == 1          \* the clock is stepped by single milliseconds up to here
MaxActivity == 1      \* output chunks / accepted inputs per session
MaxStops == 2         \* stop requests that find a given session
MaxInputs == 2        \* scripted inputs of a batch run
MaxStream == 2        \* characters captured on stdout / stderr

\* ---------------------------------------------------- program constants
IdleTimeout == 120000
KillGrace == 1000
BatchTimeout == 10000
InputGap == 100
NoTimer == -1

Runs == 1..MaxRuns
Slots == 1..MaxSessions

\* The language ids, source texts and random suffixes the requests draw from.
RequestLanguages == {"python", "c", "java", "ruby"}
\* A source text is its token sequence; only Java's runner inspects it.
RequestCodes == {<<"class", "Foo">>, <<"public", "class", "Main">>}
\* Math.random().toString(36).slice(2, n): any suffix may be drawn at any call.
RandomSuffixes == {"a", "b"}

\* ------------------------------------------------------ pure helpers
getSupportedLanguages == <<"c", "cpp", "python", "java", "javascript", "php", "go">>

\* (a language check that lets one more id through)
SupportedAndRuby(language) ==
    language = "ruby" \/ \E i \in 1..Len(getSupportedLanguages) : getSupportedLanguages[i] = language

Supported(language) == \E i \in 1..Len(getSupportedLanguages) : getSupportedLanguages[i] = language

\* The source-file extension each runner appends to the base path.
Extension(language) ==
    CASE language = "javascript" -> ".js"
      [] language = "python" -> ".py"
      [] language = "php" -> ".php"
      [] language = "go" -> ".go"
      [] language = "c" -> ".c"
      [] language = "cpp" -> ".cpp"
      [] OTHER -> ".java"

Compiled(language) == language \in {"c", "cpp", "java"}

\* code.match(/public\s+class\s+(\w+)/): the name after the first
\* "public class", or <<>> when there is none.
PublicClassAt(code) == {i \in 1..(Len(code) - 2) : code[i] = "public" /\ code[i + 1] = "class"}

JavaClassName(code) ==
    IF PublicClassAt(code) = {} THEN <<>>
    ELSE LET i == CHOOSE k \in PublicClassAt(code) : \A j \in PublicClassAt(code) : k <= j
         IN <<code[i + 2]>>

\* File names are token sequences: temp_<t>.py is <<"temp_", "<t>", ".py">>.
\* Date.now() values of one era have the same number of digits, so one
\* timestamp is a substring of another only when they are equal.
BatchStem(t) == <<"temp_", ToString(t)>>
SessionStem(t, rnd) == <<"temp_", ToString(t), "_", rnd>>

\* f.includes(stem): stem occurs in f as a contiguous run of tokens.
Includes(f, stem) ==
    \E i \in 0..(Len(f) - Len(stem)) : SubSeq(f, i + 1, i + Len(stem)) = stem

Min(S) == CHOOSE x \in S : \A y \in S : x <= y

\* What a process may have written to stdout / stderr: strings, as the
\* sequences of their characters (" " stands for any white space).
Streams == UNION {[1..n -> {" ", "x"}] : n \in 0..MaxStream}

\* String.prototype.trim: drop the white space at both ends.
RECURSIVE TrimLeft(_)
TrimLeft(str) == IF str # <<>> /\ Head(str) = " " THEN TrimLeft(Tail(str)) ELSE str

RECURSIVE TrimRight(_)
TrimRight(str) ==
    IF str # <<>> /\ str[Len(str)] = " " THEN TrimRight(SubSeq(str, 1, Len(str) - 1)) ELSE str

Trim(str) == TrimRight(TrimLeft(str))

\* (err || out).trim() || 'Execution failed'
ExecOutput(out, err) ==
    LET picked == Trim(IF err # <<>> THEN err ELSE out)
    IN IF picked # <<>> THEN picked ELSE <<"Execution failed">>

\* The value execWithInput's close handler resolves with.
ExecResult(code, out, err) == [success |-> code = 0, output |-> ExecOutput(out, err)]

\* `Language "<id>" is not supported. Supported languages: <list>`, the list
\* being supported.join(', ').
UnsupportedMessage(language) ==
    <<"Language ", language, " is not supported. Supported languages: ">>
    \o getSupportedLanguages

VARIABLES
    now,          \* the clock (Date.now(), and the timers' time)
    files,        \* names present in tempDir
    runs,         \* batch runs: Runs -> record
    sessions,     \* interactive sessions ever requested: Slots -> record
    runSessions,  \* the session table: sessionId -> slot of its session object
    killTimers    \* armed SIGKILL timers of stopRunSession: {<<slot, deadline>>}

vars == <<now, files, runs, sessions, runSessions, killTimers>>

\* ------------------------------------------------------------ state
NoResult == [success |-> FALSE, output |-> <<"none">>]

IdleRun ==
    [st |-> "idle", base |-> <<>>, made |-> {}, out |-> <<>>,
     timer |-> NoTimer, killed |-> FALSE, killAt |-> NoTimer, result |-> NoResult,
     inputs |-> 0, spawnedAt |-> NoTimer, pending |-> {}, endAt |-> NoTimer,
     sent |-> <<>>, ended |-> NoTimer]

NoSession ==
    [phase |-> "unused", sessionId |-> <<>>, base |-> <<>>, made |-> {}, out |-> <<>>,
     cleanup |-> {}, timer |-> NoTimer, proc |-> "none", wrapped |-> FALSE,
     killed |-> FALSE, activity |-> 0, written |-> 0, stops |-> 0,
     lastActivity |-> NoTimer, exits |-> 0, cleanups |-> 0, signalled |-> FALSE]

Init ==
    /\ now = 0
    /\ files = {}
    /\ runs = [r \in Runs |-> IdleRun]
    /\ sessions = [s \in Slots |-> NoSession]
    /\ runSessions = <<>>
    /\ killTimers = {}

\* ------------------------------------------------------- batch runs
\* cleanupTempFiles(b): unlink every name of tempDir that includes the stem.
\* fs.unlinkSync may throw; forEach then stops, and the names not yet
\* unlinked (keep, in readdir's unspecified order) stay behind.
Matching(fs, b) == {f \in fs : Includes(f, b)}

cleanupTempFiles(fs, b, keep) == (fs \ Matching(fs, b)) \cup keep

\* The end of runCodeWithInput: the finally block runs cleanupTempFiles(base);
\* the call resolves to res unless the body or the cleanup threw.
Settle(r, rec, fs, res, threw) ==
    \E keep \in SUBSET Matching(fs, rec.base) :
        /\ files' = cleanupTempFiles(fs, rec.base, keep)
        /\ runs' = [runs EXCEPT ![r] =
              [rec EXCEPT !.st = IF threw \/ keep # {} THEN "rejected" ELSE "returned",
                          !.result = IF threw \/ keep # {} THEN NoResult ELSE res,
                          !.timer = NoTimer]]

\* Requests issued so far, and the next free slot of each kind.
Issued ==
    Cardinality({r \in Runs : runs[r].st # "idle"})
    + Cardinality({s \in Slots : sessions[s].phase # "unused"})

FirstIdleRun(r) ==
    /\ Issued < MaxRequests
    /\ runs[r].st = "idle"
    /\ \A q \in Runs : q < r => runs[q].st # "idle"

\* (input timers armed in reverse)
InputDelayReversed(k) == (MaxInputs - k) * InputGap

\* The delay of the k-th scripted input's timer (k = 0, 1, ...).
InputDelay(k) == k * InputGap

\* The delay of the timer that ends stdin, for n >= 1 scripted inputs.
EndDelay(n) == n * InputGap + InputGap

\* execWithInput: spawn the command, arm one timer per scripted input and the
\* one that ends stdin (or end stdin at once when there is no input), and arm
\* the absolute timeout.
Spawned(rec) ==
    [rec EXCEPT !.st = "running", !.timer = now + BatchTimeout, !.spawnedAt = now,
                !.pending = {<<k, now + InputDelay(k)>> : k \in 0..(rec.inputs - 1)},
                !.endAt = IF rec.inputs > 0 THEN now + EndDelay(rec.inputs) ELSE NoTimer,
                !.ended = IF rec.inputs > 0 THEN NoTimer ELSE now]

\* runJavaWithInput up to its exec(javac) call.
RunJava(r, rec, code, wfail) ==
    LET cls == JavaClassName(code) IN
    IF cls = <<>>
    THEN Settle(r, rec, files, [success |-> FALSE, output |-> <<"No public class found">>], FALSE)
    ELSE IF wfail
    THEN Settle(r, rec, files, [success |-> FALSE, output |-> <<"error.message">>], FALSE)
    ELSE /\ files' = files \cup {<<cls[1], ".java">>}
         /\ runs' = [runs EXCEPT ![r] =
               [rec EXCEPT !.st = "compiling", !.made = {<<cls[1], ".java">>},
                           !.out = <<cls[1], ".class">>]]

\* runCWithInput / runCppWithInput up to compileAndRun's exec call.
RunCompiled(r, rec, language, wfail) ==
    LET src == rec.base \o <<Extension(language)>> IN
    IF wfail
    THEN Settle(r, rec, files, NoResult, TRUE)
    ELSE /\ files' = files \cup {src}
         /\ runs' = [runs EXCEPT ![r] =
               [rec EXCEPT !.st = "compiling", !.made = {src}, !.out = rec.base \o <<".exe">>]]

\* runJavaScriptWithInput / runPythonWithInput / runPHPWithInput / runGoWithInput.
RunInterpreted(r, rec, language, wfail) ==
    LET src == rec.base \o <<Extension(language)>> IN
    IF wfail
    THEN Settle(r, rec, files, NoResult, TRUE)
    ELSE /\ files' = files \cup {src}
         /\ runs' = [runs EXCEPT ![r] = Spawned([rec EXCEPT !.made = {src}])]

runCodeWithInput(r, language, code, inputs, wfail) ==
    /\ FirstIdleRun(r)
    /\ IF ~Supported(language)
       THEN /\ runs' = [runs EXCEPT ![r] =
                  [IdleRun EXCEPT !.st = "returned",
                                  !.result = [success |-> FALSE,
                                              output |-> UnsupportedMessage(language)]]]
            /\ UNCHANGED files
       ELSE LET rec == [IdleRun EXCEPT !.base = BatchStem(now), !.inputs = inputs] IN
            IF language = "java" THEN RunJava(r, rec, code, wfail)
            ELSE IF Compiled(language) THEN RunCompiled(r, rec, language, wfail)
            ELSE RunInterpreted(r, rec, language, wfail)
    /\ UNCHANGED <<now, sessions, runSessions, killTimers>>

\* The callback of the compiler's exec: on an error the run resolves with the
\* diagnostic, otherwise the compiler's output exists and the program is spawned.
BatchCompileDone(r, ok) ==
    /\ runs[r].st = "compiling"
    /\ IF ok
       THEN /\ files' = files \cup {runs[r].out}
            /\ runs' = [runs EXCEPT ![r] =
                  Spawned([runs[r] EXCEPT !.made = @ \cup {runs[r].out}])]
       ELSE Settle(r, runs[r], files, [success |-> FALSE, output |-> <<"compile error">>], FALSE)
    /\ UNCHANGED <<now, sessions, runSessions, killTimers>>

\* execWithInput's timer: killed = true, SIGTERM, and SIGKILL one grace period later.
BatchTimerFire(r) ==
    /\ runs[r].st = "running"
    /\ runs[r].timer = now
    /\ runs' = [runs EXCEPT ![r] =
          [@ EXCEPT !.killed = TRUE, !.timer = NoTimer, !.killAt = now + KillGrace]]
    /\ UNCHANGED <<now, files, sessions, runSessions, killTimers>>

\* The SIGKILL timer; close does not clear it, so it also fires after the return.
BatchKillFire(r) ==
    /\ runs[r].killAt = now
    /\ runs' = [runs EXCEPT ![r] = [@ EXCEPT !.killAt = NoTimer]]
    /\ UNCHANGED <<now, files, sessions, runSessions, killTimers>>

\* A scripted input's timer: !killed && child.stdin.write(input + '\n').
\* Timers due at the same time run in the order they were armed.
BatchInputFire(r) ==
    /\ \E p \in runs[r].pending :
          /\ p[2] = now
          /\ \A q \in runs[r].pending : q[2] = now => p[1] <= q[1]
          /\ runs' = [runs EXCEPT ![r] =
                [@ EXCEPT !.pending = @ \ {p},
                          !.sent = IF runs[r].killed THEN @ ELSE Append(@, p)]]
    /\ UNCHANGED <<now, files, sessions, runSessions, killTimers>>

\* The last timer of the inputs: child.stdin.end().
BatchEndFire(r) ==
    /\ runs[r].endAt = now
    /\ \A q \in runs[r].pending : q[2] > now
    /\ runs' = [runs EXCEPT ![r] = [@ EXCEPT !.endAt = NoTimer, !.ended = now]]
    /\ UNCHANGED <<now, files, sessions, runSessions, killTimers>>

\* execWithInput's close handler (c: the exit code, out / err: what was
\* captured), then runCodeWithInput's finally.
BatchClose(r, code, out, err) ==
    /\ runs[r].st = "running"
    /\ Settle(r, runs[r], files, ExecResult(code, out, err), FALSE)
    /\ UNCHANGED <<now, sessions, runSessions, killTimers>>

\* ------------------------------------------------- interactive sessions
\* process.platform: the compiled binary is <base>.exe on win32, <base>.out elsewhere.
Platform == "linux"

BinaryExtension == IF Platform = "win32" THEN ".exe" ELSE ".out"

createSessionId(t, rnd) == <<"run_", ToString(t), "_", rnd>>

Put(m, k, v) == [x \in (DOMAIN m) \cup {k} |-> IF x = k THEN v ELSE m[x]]

\* (a close handler that forgets runSessions.delete)
RemoveForgotten(m, k) == m

Remove(m, k) == [x \in (DOMAIN m) \ {k} |-> m[x]]

FirstUnused(s) ==
    /\ Issued < MaxRequests
    /\ sessions[s].phase = "unused"
    /\ \A q \in Slots : q < s => sessions[q].phase # "unused"

\* (a resetTimer that leaves an armed timer running instead of re-arming it)
resetTimerKeepsDeadline(rec) ==
    [rec EXCEPT !.timer = IF @ = NoTimer THEN now + IdleTimeout ELSE @]

\* resetTimer: clearTimeout(session.timer), then arm the idle timer afresh.
resetTimer(rec) == [rec EXCEPT !.timer = now + IdleTimeout]

\* spawn(..., {shell: true}) and registerRunSession: the session object goes
\* into the table under its id (Map.set replaces an entry of the same key) and
\* the idle timer is armed.  wrapped: the shell stays between Node and the
\* program, so that kill() signals the shell only.
registerRunSession(s, rec, wrapped) ==
    /\ sessions' = [sessions EXCEPT ![s] =
          resetTimer([rec EXCEPT !.phase = "registered", !.proc = "running",
                                 !.wrapped = wrapped, !.lastActivity = now])]
    /\ runSessions' = Put(runSessions, rec.sessionId, s)

\* What startRunSession returns as {error} before any await (<<>> when it goes on).
StartError(language, code, wfail) ==
    IF ~Supported(language) THEN UnsupportedMessage(language)
    ELSE IF language = "java" /\ JavaClassName(code) = <<>>
    THEN <<"No public class found. Java requires a public class name to run.">>
    ELSE IF wfail THEN <<"error.toString()">>
    ELSE <<>>

\* startRunSession up to its return or its first await (the compiler's exec).
startRunSession(s, language, code, rnd6, rnd4, wfail, wrapped) ==
    /\ FirstUnused(s)
    /\ IF StartError(language, code, wfail) # <<>>
       THEN UNCHANGED <<files, sessions, runSessions>>
       ELSE LET rec == [NoSession EXCEPT !.sessionId = createSessionId(now, rnd6),
                                         !.base = SessionStem(now, rnd4)]
                cls == JavaClassName(code)
                src == IF language = "java" THEN <<cls[1], ".java">>
                       ELSE rec.base \o <<Extension(language)>>
                out == IF language = "java" THEN <<cls[1], ".class">>
                       ELSE rec.base \o <<BinaryExtension>>
            IN IF Compiled(language)
               THEN /\ files' = files \cup {src}
                    /\ sessions' = [sessions EXCEPT ![s] =
                          [rec EXCEPT !.phase = "compiling", !.made = {src}, !.out = out]]
                    /\ UNCHANGED runSessions
               ELSE /\ files' = files \cup {src}
                    /\ registerRunSession(s, [rec EXCEPT !.made = {src}, !.cleanup = {src}],
                                          wrapped)
    /\ UNCHANGED <<now, runs, killTimers>>

\* startRunSession after await execPromise(compile): a rejection is caught while
\* cleanup is still null and {error} returned; otherwise the binary is spawned
\* and the session registered.
StartCompileDone(s, ok, wrapped) ==
    /\ sessions[s].phase = "compiling"
    /\ IF ok
       THEN /\ files' = files \cup {sessions[s].out}
            /\ registerRunSession(s,
                  [sessions[s] EXCEPT !.made = @ \cup {sessions[s].out},
                                      !.cleanup = sessions[s].made \cup {sessions[s].out}],
                  wrapped)
       ELSE /\ sessions' = [sessions EXCEPT ![s] = [@ EXCEPT !.phase = "error"]]
            /\ UNCHANGED <<files, runSessions>>
    /\ UNCHANGED <<now, runs, killTimers>>

\* proc.stdout / proc.stderr 'data': relay the chunk and reset the idle timer.
ProcOutput(s) ==
    /\ sessions[s].phase = "registered"
    /\ sessions[s].proc \in {"running", "dead", "shelldead", "orphaned", "exited"}
    /\ sessions[s].activity < MaxActivity
    /\ sessions' = [sessions EXCEPT ![s] =
          resetTimer([@ EXCEPT !.activity = @ + 1, !.lastActivity = now])]
    /\ UNCHANGED <<now, files, runs, runSessions, killTimers>>

\* proc.kill(signal) as Node sees it: the signal is sent, and proc.killed set,
\* only while the child's handle is still open.
HandleOpen(rec) == rec.proc \in {"running", "dead", "shelldead"}

KillSent(rec) == [rec EXCEPT !.killed = @ \/ HandleOpen(rec)]

\* (a stop that also cancels the idle timer)
stopRunSessionClearsTimer(ss, sessionId) ==
    IF sessionId \in DOMAIN runSessions
    THEN [ss EXCEPT ![runSessions[sessionId]] =
            [KillSent(@) EXCEPT !.signalled = TRUE, !.timer = NoTimer]]
    ELSE ss

\* stopRunSession(sessionId): false for an id the table does not hold;
\* otherwise SIGTERM at once and SIGKILL one grace period later.  Neither the
\* table, nor the idle timer, nor a file is touched.
stopRunSession(ss, sessionId) ==
    IF sessionId \in DOMAIN runSessions
    THEN [ss EXCEPT ![runSessions[sessionId]] = [KillSent(@) EXCEPT !.signalled = TRUE]]
    ELSE ss

stopKillTimer(timers, sessionId) ==
    IF sessionId \in DOMAIN runSessions
    THEN timers \cup {<<runSessions[sessionId], now + KillGrace>>}
    ELSE timers

\* What the 'stop-run' handler returns as ok.
StopRunReply(sessionId) == sessionId \in DOMAIN runSessions

\* The 'stop-run' handler.
IpcStopRun(sessionId) ==
    /\ StopRunReply(sessionId) => sessions[runSessions[sessionId]].stops < MaxStops
    /\ sessions' = LET ss == stopRunSession(sessions, sessionId) IN
                   IF StopRunReply(sessionId)
                   THEN [ss EXCEPT ![runSessions[sessionId]] = [@ EXCEPT !.stops = @ + 1]]
                   ELSE ss
    /\ killTimers' = stopKillTimer(killTimers, sessionId)
    /\ UNCHANGED <<now, files, runs, runSessions>>

\* The 'send-input' handler's guard.
StdinWritable(rec) == rec.proc \in {"running", "dead", "shelldead"}

\* (a guard that forgets proc.killed)
NoActiveSessionIgnoresKilled(sessionId) ==
    \/ sessionId \notin DOMAIN runSessions
    \/ ~StdinWritable(sessions[runSessions[sessionId]])

NoActiveSession(sessionId) ==
    \/ sessionId \notin DOMAIN runSessions
    \/ sessions[runSessions[sessionId]].killed
    \/ ~StdinWritable(sessions[runSessions[sessionId]])

\* What the 'send-input' handler returns.
SendInputReply(sessionId) == IF NoActiveSession(sessionId) THEN "error" ELSE "ok"

\* The 'send-input' handler: write input + '\n' to stdin and reset the idle timer.
IpcSendInput(sessionId) ==
    /\ IF SendInputReply(sessionId) = "error"
       THEN UNCHANGED sessions
       ELSE LET s == runSessions[sessionId] IN
            /\ sessions[s].activity < MaxActivity
            /\ sessions' = [sessions EXCEPT ![s] =
                  resetTimer([@ EXCEPT !.activity = @ + 1, !.lastActivity = now,
                                       !.written = @ + 1])]
    /\ UNCHANGED <<now, files, runs, runSessions, killTimers>>

\* The idle timer's callback: stopRunSession(sessionId, true).
IdleTimerFire(s) ==
    /\ sessions[s].timer = now
    /\ sessions' = stopRunSession(
          [sessions EXCEPT ![s] = [@ EXCEPT !.timer = NoTimer, !.lastActivity = NoTimer]],
          sessions[s].sessionId)
    /\ killTimers' = stopKillTimer(killTimers, sessions[s].sessionId)
    /\ UNCHANGED <<now, files, runs, runSessions>>

\* stopRunSession's second timer: session.proc.kill('SIGKILL').  The signal
\* ends the process Node spawned: the program itself, or the shell around it.
KillTimerFire(k) ==
    /\ k \in killTimers
    /\ k[2] = now
    /\ killTimers' = killTimers \ {k}
    /\ sessions' = [sessions EXCEPT ![k[1]] =
          [KillSent(@) EXCEPT !.proc =
              IF @ = "running" THEN (IF sessions[k[1]].wrapped THEN "shelldead" ELSE "dead")
              ELSE @]]
    /\ UNCHANGED <<now, files, runs, runSessions>>

\* The program ends by itself (or in reaction to SIGTERM).
ProcExit(s) ==
    /\ sessions[s].proc \in {"running", "shelldead", "orphaned"}
    /\ sessions' = [sessions EXCEPT ![s] =
          [@ EXCEPT !.proc = IF @ = "orphaned" THEN "exited" ELSE "dead"]]
    /\ UNCHANGED <<now, files, runs, runSessions, killTimers>>

\* Node handles the child's exit: the handle is closed and stdin destroyed.
\* The pipes stay open while a program behind a killed shell still runs.
NodeSeesExit(s) ==
    /\ sessions[s].proc \in {"dead", "shelldead"}
    /\ sessions' = [sessions EXCEPT ![s] =
          [@ EXCEPT !.proc = IF @ = "shelldead" THEN "orphaned" ELSE "exited"]]
    /\ UNCHANGED <<now, files, runs, runSessions, killTimers>>

\* safeUnlink over the closure's files: a failing unlink is swallowed and
\* leaves its file (keep) behind.
cleanupFiles(fs, list, keep) == (fs \ list) \cup keep

\* (a close handler that forgets clearTimeout)
CloseHandlerKeepsTimer(s, keep) ==
    /\ sessions[s].phase = "registered"
    /\ sessions[s].proc = "exited"
    /\ keep \subseteq (sessions[s].cleanup \cap files)
    /\ files' = cleanupFiles(files, sessions[s].cleanup, keep)
    /\ runSessions' = Remove(runSessions, sessions[s].sessionId)
    /\ sessions' = [sessions EXCEPT ![s] =
          [@ EXCEPT !.phase = "closed", !.proc = "closed",
                    !.cleanups = @ + 1, !.exits = @ + 1]]
    /\ UNCHANGED <<now, runs, killTimers>>

\* proc 'close': clearTimeout, cleanup(), runSessions.delete, sendRunExit.
CloseHandler(s, keep) ==
    /\ sessions[s].phase = "registered"
    /\ sessions[s].proc = "exited"
    /\ keep \subseteq (sessions[s].cleanup \cap files)
    /\ files' = cleanupFiles(files, sessions[s].cleanup, keep)
    /\ runSessions' = Remove(runSessions, sessions[s].sessionId)
    /\ sessions' = [sessions EXCEPT ![s] =
          [@ EXCEPT !.phase = "closed", !.proc = "closed", !.timer = NoTimer,
                    !.lastActivity = NoTimer, !.cleanups = @ + 1, !.exits = @ + 1]]
    /\ UNCHANGED <<now, runs, killTimers>>

\* ------------------------------------------------------------- time
Deadlines ==
    {sessions[s].timer : s \in {q \in Slots : sessions[q].timer # NoTimer}}
    \cup {runs[r].timer : r \in {q \in Runs : runs[q].timer # NoTimer}}
    \cup {runs[r].killAt : r \in {q \in Runs : runs[q].killAt # NoTimer}}
    \cup {runs[r].endAt : r \in {q \in Runs : runs[q].endAt # NoTimer}}
    \cup UNION {{p[2] : p \in runs[r].pending} : r \in Runs}
    \cup {k[2] : k \in killTimers}

\* A millisecond passes with no timer due.
Tick ==
    /\ now < MaxTick
    /\ \A d \in Deadlines : now + 1 <= d
    /\ now' = now + 1
    /\ UNCHANGED <<files, runs, sessions, runSessions, killTimers>>

\* The event loop sleeps until the earliest armed timer is due; it does not
\* sleep while the exit of a child waits to be dispatched.
Elapse ==
    /\ Deadlines # {}
    /\ \A s \in Slots : sessions[s].proc \notin {"dead", "shelldead"}
    /\ now < Min(Deadlines)
    /\ now' = Min(Deadlines)
    /\ UNCHANGED <<files, runs, sessions, runSessions, killTimers>>

\* --------------------------------------------------------- the system
\* Session ids a request may name: those handed out, and one never handed out.
NoSuchId == <<"does-not-exist">>

RequestIds == {sessions[s].sessionId : s \in {q \in Slots : sessions[q].phase # "unused"}}
              \cup {NoSuchId}

\* Spec: the runs and sessions issued within the first MaxTick milliseconds,
\* followed for as long as no timer comes due (every timeout is at least
\* KillGrace away, so no signal is sent and the shell around a program is
\* not observable): what they write, what they leave, what the table holds.
Next ==
    \/ \E r \in Runs, language \in RequestLanguages, code \in RequestCodes, wfail \in BOOLEAN :
          runCodeWithInput(r, language, code, 0, wfail)
    \/ \E r \in Runs, ok \in BOOLEAN : BatchCompileDone(r, ok)
    \/ \E r \in Runs, code \in {0, 1} : BatchClose(r, code, <<"x">>, <<>>)
    \/ \E s \in Slots, language \in RequestLanguages, code \in RequestCodes,
          rnd6 \in RandomSuffixes, rnd4 \in RandomSuffixes, wfail \in BOOLEAN :
          startRunSession(s, language, code, rnd6, rnd4, wfail, FALSE)
    \/ \E s \in Slots, ok \in BOOLEAN : StartCompileDone(s, ok, FALSE)
    \/ \E s \in Slots : ProcExit(s)
    \/ \E s \in Slots : NodeSeesExit(s)
    \/ \E s \in Slots : \E keep \in SUBSET (sessions[s].cleanup \cap files) : CloseHandler(s, keep)
    \/ Tick

Spec == Init /\ [][Next]_vars

\* SessionSpec: one interactive session followed through its whole life, with
\* every timer: inputs, output, stops, idle expiry, SIGKILL, exit and close.
SessionNext ==
    \/ \E language \in {"python", "ruby"}, rnd6 \in RandomSuffixes, rnd4 \in RandomSuffixes,
          wfail \in BOOLEAN, wrapped \in BOOLEAN :
          startRunSession(1, language, <<>>, rnd6, rnd4, wfail, wrapped)
    \/ ProcOutput(1)
    \/ \E id \in RequestIds : IpcSendInput(id)
    \/ \E id \in RequestIds : IpcStopRun(id)
    \/ IdleTimerFire(1)
    \/ \E k \in killTimers : KillTimerFire(k)
    \/ ProcExit(1)
    \/ NodeSeesExit(1)
    \/ \E keep \in SUBSET (sessions[1].cleanup \cap files) : CloseHandler(1, keep)
    \/ Tick
    \/ Elapse

SessionSpec == Init /\ [][SessionNext]_vars

\* EntrySpec: one call of each entry point, in every language and with every
\* source text, followed to its end.
EntryNext ==
    \/ \E language \in RequestLanguages, code \in RequestCodes, wfail \in BOOLEAN :
          runCodeWithInput(1, language, code, 0, wfail)
    \/ \E ok \in BOOLEAN : BatchCompileDone(1, ok)
    \/ \E code \in {0, 1} : BatchClose(1, code, <<"x">>, <<>>)
    \/ \E language \in RequestLanguages, code \in RequestCodes,
          rnd6 \in RandomSuffixes, rnd4 \in RandomSuffixes, wfail \in BOOLEAN :
          startRunSession(1, language, code, rnd6, rnd4, wfail, FALSE)
    \/ \E ok \in BOOLEAN : StartCompileDone(1, ok, FALSE)
    \/ ProcExit(1)
    \/ NodeSeesExit(1)
    \/ \E keep \in SUBSET (sessions[1].cleanup \cap files) : CloseHandler(1, keep)
    \/ Tick

EntrySpec == Init /\ [][EntryNext]_vars

\* BatchSpec: one batch run of an interpreted language with its scripted
\* inputs, followed through all its timers.  1 stands for every exit code
\* other than 0, the null of a process ended by a signal included.
BatchNext ==
    \/ \E inputs \in 0..MaxInputs, wfail \in BOOLEAN :
          runCodeWithInput(1, "python", <<>>, inputs, wfail)
    \/ BatchInputFire(1)
    \/ BatchEndFire(1)
    \/ BatchTimerFire(1)
    \/ BatchKillFire(1)
    \/ \E code \in {0, 1}, out \in Streams, err \in Streams : BatchClose(1, code, out, err)
    \/ Tick
    \/ Elapse

BatchSpec == Init /\ [][BatchNext]_vars

\* LiveSpec: SessionSpec on a file system that does not fail, with the
\* scheduling Node guarantees: a due timer's callback runs, time passes, a
\* child's exit and close events are dispatched.  Nothing obliges a program
\* to end by itself, nor a caller to send requests.
LiveNext ==
    \/ \E language \in {"python", "ruby"}, rnd6 \in RandomSuffixes, rnd4 \in RandomSuffixes,
          wfail \in BOOLEAN, wrapped \in BOOLEAN :
          startRunSession(1, language, <<>>, rnd6, rnd4, wfail, wrapped)
    \/ ProcOutput(1)
    \/ \E id \in RequestIds : IpcSendInput(id)
    \/ \E id \in RequestIds : IpcStopRun(id)
    \/ IdleTimerFire(1)
    \/ \E k \in killTimers : KillTimerFire(k)
    \/ ProcExit(1)
    \/ NodeSeesExit(1)
    \/ CloseHandler(1, {})
    \/ Tick
    \/ Elapse

LiveSpec ==
    /\ Init
    /\ [][LiveNext]_vars
    /\ WF_vars(Elapse)
    /\ WF_vars(IdleTimerFire(1))
    /\ WF_vars(\E k \in killTimers : KillTimerFire(k))
    /\ WF_vars(NodeSeesExit(1))
    /\ WF_vars(CloseHandler(1, {}))

\* ------------------------------------------------------------ claims
RunOutstanding(r) == runs[r].st \in {"compiling", "running"}

SessionOutstanding(s) == sessions[s].phase \in {"compiling", "registered"}

InTable(s) == \E id \in DOMAIN runSessions : runSessions[id] = s

\* C1: once a batch run has returned, none of the files written for it
\* (source, binary, class file) is left in the scratch directory.
C1_NoArtifactAfterReturn ==
    \A r \in Runs : runs[r].st = "returned" => runs[r].made \cap files = {}

\* C2: runCodeWithInput never rejects: every call resolves to a RunResult.
C2_NeverRejects == \A r \in Runs : runs[r].st # "rejected"

\* C3: once a session's exit event has been emitted the table no longer
\* holds the session, so 'send-input' for its id answers with an error and
\* 'stop-run' finds nothing to signal.
C3_TeardownThenNotFound ==
    \A s \in Slots : sessions[s].exits > 0 =>
        /\ ~InTable(s)
        /\ SendInputReply(sessions[s].sessionId) = "error"
        /\ ~StopRunReply(sessions[s].sessionId)

C3_Witness == sessions[1].exits = 1 /\ sessions[1].written = 1 /\ sessions[1].stops = 1

\* C4: a session is torn down at most once, and all at once: the exit event
\* and the cleanup closure each happen exactly once, with the close of its
\* process and never before; from then on its idle timer is not armed.
C4_TornDownOnce ==
    \A s \in Slots :
        /\ sessions[s].phase = "closed" =>
              /\ sessions[s].exits = 1
              /\ sessions[s].cleanups = 1
              /\ sessions[s].timer = NoTimer
        /\ sessions[s].phase # "closed" => sessions[s].exits = 0 /\ sessions[s].cleanups = 0

C4_Witness ==
    /\ sessions[1].phase = "closed"
    /\ sessions[1].stops = 2
    /\ now = IdleTimeout + KillGrace

\* C5: the idle timer's callback runs exactly IdleTimeout after the session's
\* last activity (registration, an accepted input, an output chunk): an armed
\* timer is never overdue, and it fires at last activity + IdleTimeout.
C5_IdleTimerExact ==
    /\ [](\A s \in Slots : sessions[s].timer # NoTimer => now <= sessions[s].timer)
    /\ [][\A s \in Slots : IdleTimerFire(s) =>
             /\ sessions[s].lastActivity # NoTimer
             /\ now = sessions[s].lastActivity + IdleTimeout]_vars

C5_Witness ==
    /\ sessions[1].phase = "registered"
    /\ sessions[1].timer = NoTimer
    /\ sessions[1].activity = 1
    /\ now > IdleTimeout

\* C6: once termination of a session has been initiated (explicit stop or
\* idle expiry), its process eventually closes: the exit event is emitted, the
\* table entry removed and the session's files deleted.
C6_StopLeadsToTeardown ==
    \A s \in Slots :
        sessions[s].signalled ~>
            (sessions[s].phase = "closed" /\ ~InTable(s) /\ sessions[s].made \cap files = {})

\* C7 as stated: 'send-input' answers with an error exactly when the id is
\* not in the table or the input stream is not writable.
C7_ErrorOnlyWhenAbsentOrUnwritable ==
    \A id \in RequestIds :
        SendInputReply(id) = "error" <=>
            \/ id \notin DOMAIN runSessions
            \/ sessions[runSessions[id]].proc \in {"none", "orphaned", "exited", "closed"}

\* C7 as amended: 'send-input' answers with an error, and writes nothing,
\* exactly when the id is not in the table, a signal has already been sent
\* to the process (proc.killed) or the input stream is not writable; in every
\* other case it writes one line, re-arms the idle timer and answers ok.
C7_ErrorWhenAbsentKilledOrUnwritable ==
    /\ [](\A id \in RequestIds :
            SendInputReply(id) = "error" <=>
                \/ id \notin DOMAIN runSessions
                \/ sessions[runSessions[id]].killed
                \/ sessions[runSessions[id]].proc \in {"none", "orphaned", "exited", "closed"})
    /\ [][\A id \in DOMAIN runSessions :
             IpcSendInput(id) =>
                 IF SendInputReply(id) = "ok"
                 THEN /\ sessions'[runSessions[id]].written = sessions[runSessions[id]].written + 1
                      /\ sessions'[runSessions[id]].timer = now + IdleTimeout
                 ELSE sessions' = sessions]_vars

C7_Witness ==
    /\ sessions[1].phase = "registered"
    /\ sessions[1].proc = "running"
    /\ sessions[1].killed
    /\ sessions[1].written = 1
    /\ SendInputReply(sessions[1].sessionId) = "error"

\* C8: an input that arrives after the process has ended, while the table
\* still holds the session, is answered with an error and not written.
C8_NoWriteAfterExit ==
    [][\A id \in DOMAIN runSessions :
          (sessions[runSessions[id]].proc \in {"dead", "exited"} /\ IpcSendInput(id)) =>
              (SendInputReply(id) = "error" /\ sessions' = sessions)]_vars

\* C9: 'stop-run' only signals.  For an id in the table it answers ok, sends
\* SIGTERM and arms the SIGKILL timer, and leaves the table, every idle timer
\* and every file as they were; for an unknown id it changes nothing at all.
C9_StopOnlySignals ==
    [][\A id \in RequestIds :
          IpcStopRun(id) =>
              /\ runSessions' = runSessions
              /\ files' = files
              /\ \A s \in Slots :
                    /\ sessions'[s].timer = sessions[s].timer
                    /\ sessions'[s].phase = sessions[s].phase
                    /\ sessions'[s].cleanup = sessions[s].cleanup
                    /\ sessions'[s].cleanups = sessions[s].cleanups
              /\ IF id \in DOMAIN runSessions
                 THEN /\ StopRunReply(id)
                      /\ <<runSessions[id], now + KillGrace>> \in killTimers'
                      /\ HandleOpen(sessions[runSessions[id]]) => sessions'[runSessions[id]].killed
                 ELSE /\ ~StopRunReply(id)
                      /\ sessions' = sessions
                      /\ killTimers' = killTimers]_vars

C9_Witness ==
    /\ sessions[1].stops = 2
    /\ sessions[1].phase = "registered"
    /\ sessions[1].timer # NoTimer
    /\ sessions[1].cleanup \subseteq files
    /\ Cardinality(killTimers) = 2

\* C10: runs and sessions that are outstanding at the same time have
\* different base paths.
C10_DistinctBasePaths ==
    /\ \A r, q \in Runs :
          (r # q /\ RunOutstanding(r) /\ RunOutstanding(q)) => runs[r].base # runs[q].base
    /\ \A s, q \in Slots :
          (s # q /\ SessionOutstanding(s) /\ SessionOutstanding(q))
              => sessions[s].base # sessions[q].base
    /\ \A r \in Runs, s \in Slots :
          (RunOutstanding(r) /\ SessionOutstanding(s)) => runs[r].base # sessions[s].base

\* C11: every artifact belongs to one run or session: two that are
\* outstanding at the same time share no file name, and the files of an
\* outstanding one are in the scratch directory until its own cleanup.
C11_ArtifactsOwnedByOne ==
    /\ \A r, q \in Runs :
          (r # q /\ RunOutstanding(r) /\ RunOutstanding(q)) => runs[r].made \cap runs[q].made = {}
    /\ \A s, q \in Slots :
          (s # q /\ SessionOutstanding(s) /\ SessionOutstanding(q))
              => sessions[s].made \cap sessions[q].made = {}
    /\ \A r \in Runs, s \in Slots :
          (RunOutstanding(r) /\ SessionOutstanding(s)) => runs[r].made \cap sessions[s].made = {}
    /\ \A r \in Runs : RunOutstanding(r) => runs[r].made \subseteq files
    /\ \A s \in Slots : SessionOutstanding(s) => sessions[s].made \subseteq files

\* C12: a session id is generated once: the sessions that were given an id
\* have different ids, and the table maps the id of every registered session
\* to that very session.
C12_SessionIdsUnique ==
    /\ \A s, q \in Slots :
          (s # q /\ sessions[s].phase # "unused" /\ sessions[q].phase # "unused")
              => sessions[s].sessionId # sessions[q].sessionId
    /\ \A s \in Slots :
          sessions[s].phase = "registered" =>
              /\ sessions[s].sessionId \in DOMAIN runSessions
              /\ runSessions[sessions[s].sessionId] = s

\* C13: the scripted inputs of a batch run are written in the order of the
\* request, the k-th (k = 0, 1, ...) no earlier than k*100 after the spawn.
C13_InputsInOrder ==
    \A r \in Runs :
        /\ \A i, j \in 1..Len(runs[r].sent) : i < j => runs[r].sent[i][1] < runs[r].sent[j][1]
        /\ \A i \in 1..Len(runs[r].sent) :
              runs[r].sent[i][2] >= runs[r].spawnedAt + runs[r].sent[i][1] * 100

C13_Witness ==
    /\ Len(runs[1].sent) = 2
    /\ runs[1].sent[2] = <<1, runs[1].spawnedAt + 100>>

\* C14: stdin is ended 100 after the last scripted input has been written,
\* and at the spawn itself when there is no scripted input.
C14_StdinEndedAfterLastInput ==
    \A r \in Runs :
        runs[r].ended # NoTimer =>
            IF runs[r].inputs = 0
            THEN runs[r].ended = runs[r].spawnedAt
            ELSE runs[r].sent # <<>> =>
                    runs[r].ended = runs[r].sent[Len(runs[r].sent)][2] + 100

\* C15: a batch run that was still running when its 10,000 timeout fired
\* resolves with success = false, whatever exit code its process reports.
C15_TimedOutRunFails ==
    [][\A r \in Runs :
          (runs[r].killed /\ runs[r].st = "running" /\ runs'[r].st = "returned")
              => ~runs'[r].result.success]_vars

\* C16: when the process of a batch run ends by itself, success is (exit
\* code = 0) and output is the trimmed stderr if stderr is not empty, else
\* the trimmed stdout if stdout is not empty, else the failure marker.
C16_NormalExitResult ==
    [][\A r \in Runs, code \in {0, 1}, out \in Streams, err \in Streams :
          (~runs[r].killed /\ BatchClose(r, code, out, err) /\ runs'[r].st = "returned")
              => runs'[r].result =
                    [success |-> code = 0,
                     output |-> IF err # <<>> THEN Trim(err)
                                ELSE IF out # <<>> THEN Trim(out)
                                ELSE <<"Execution failed">>]]_vars

\* The language ids the error message has to list, and a message that names
\* the refused id and lists exactly those.
FixedLanguages == {"c", "cpp", "python", "java", "javascript", "php", "go"}

ListsFixedLanguages(msg) ==
    /\ Len(msg) = 10
    /\ msg[2] \in RequestLanguages \ FixedLanguages
    /\ {msg[i] : i \in 4..10} = FixedLanguages

\* C17: for a language id outside the fixed set both entry points answer with
\* an error that lists exactly that set, and write no file, spawn no process
\* and register no session.
C17_UnsupportedLanguage ==
    /\ [](\A language \in RequestLanguages \ FixedLanguages,
             code \in RequestCodes, wfail \in BOOLEAN :
             ListsFixedLanguages(StartError(language, code, wfail)))
    /\ [][\A r \in Runs, language \in RequestLanguages \ FixedLanguages,
             code \in RequestCodes, wfail \in BOOLEAN :
             runCodeWithInput(r, language, code, 0, wfail) =>
                 /\ files' = files
                 /\ runs'[r].st = "returned"
                 /\ runs'[r].made = {} /\ runs'[r].spawnedAt = NoTimer
                 /\ ~runs'[r].result.success
                 /\ ListsFixedLanguages(runs'[r].result.output)]_vars
    /\ [][\A s \in Slots, language \in RequestLanguages \ FixedLanguages,
             code \in RequestCodes, rnd6 \in RandomSuffixes, rnd4 \in RandomSuffixes,
             wfail \in BOOLEAN :
             startRunSession(s, language, code, rnd6, rnd4, wfail, FALSE) =>
                 UNCHANGED <<files, sessions, runSessions>>]_vars

C17_Witness ==
    \E r \in Runs :
        /\ runs[r].st = "returned"
        /\ runs[r].result.output = UnsupportedMessage("ruby")
        /\ runs[r].made = {}

\* C18: a Java submission without a public class fails fast at both entry
\* points: no file is written, nothing is compiled or spawned, no session is
\* registered, and runCodeWithInput returns "No public class found".
C18_NoPublicClassFailsFast ==
    /\ [][\A r \in Runs, code \in RequestCodes, wfail \in BOOLEAN :
             (JavaClassName(code) = <<>> /\ runCodeWithInput(r, "java", code, 0, wfail)) =>
                 /\ files' \subseteq files
                 /\ runs'[r].made = {} /\ runs'[r].spawnedAt = NoTimer
                 /\ runs'[r].st = "returned"
                 /\ runs'[r].result =
                       [success |-> FALSE, output |-> <<"No public class found">>]]_vars
    /\ [][\A s \in Slots, code \in RequestCodes, rnd6 \in RandomSuffixes,
             rnd4 \in RandomSuffixes, wfail \in BOOLEAN :
             (JavaClassName(code) = <<>>
                 /\ startRunSession(s, "java", code, rnd6, rnd4, wfail, FALSE)) =>
                 UNCHANGED <<files, sessions, runSessions>>]_vars

\* C19: when the compile step of startRun fails, no session is registered
\* and every file written for the request is deleted.
C19_CompileFailureCleansUp ==
    \A s \in Slots :
        sessions[s].phase = "error" =>
            /\ ~InTable(s)
            /\ sessions[s].proc = "none"
            /\ sessions[s].made \cap files = {}

\* C20: the SIGKILL of an escalated termination comes after the SIGTERM and
\* is sent only to a process that has not exited.
C20_ForcedKillOnlyWhileRunning ==
    [][\A k \in killTimers :
          (KillTimerFire(k) /\ HandleOpen(sessions[k[1]])) =>
              /\ sessions[k[1]].signalled
              /\ sessions[k[1]].proc = "running"]_vars

\* C21: a scripted input of a batch run is written only while the process
\* runs and its stdin has not been ended.
C21_NoInputAfterExit ==
    [][\A r \in Runs :
          Len(runs'[r].sent) > Len(runs[r].sent) =>
              /\ runs[r].st = "running"
              /\ runs[r].ended = NoTimer]_vars

====
